---- MODULE Spec2Model ----
(***************************************************************************)
(* A model of the hierarchical configuration loader of                     *)
(* pydantic-config-mgmt-template: the four explicit sources (secrets       *)
(* directory, process environment, dotenv file, YAML file), the            *)
(* precedence merge, the schema validation of AppConfig, secret masking,   *)
(* the lru_cache around get_config() and the two export operations.        *)
(***************************************************************************)
EXTENDS Integers, Sequences, FiniteSets, TLC

(***************************************************************************)
(* Values.  A raw or typed value is a tagged record, so that a string, an  *)
(* integer, null and a SecretStr wrapper are never confused.               *)
(***************************************************************************)
Str(s) == [str |-> s]
IntVal(n) == [int |-> n]
None == [none |-> TRUE]
SecretStr(s) == [secret |-> s]

IsStr(v) == DOMAIN v = {"str"}
IsInt(v) == DOMAIN v = {"int"}
IsNone(v) == DOMAIN v = {"none"}
IsSecret(v) == DOMAIN v = {"secret"}

\* The two kinds of value that only a dumped dictionary can hold.
Bool(b) == [bool |-> b]
ListVal(items) == [list |-> items]

IsBool(v) == DOMAIN v = {"bool"}
IsList(v) == DOMAIN v = {"list"}

\* The empty mapping (a dict with no key).
EmptyMap == << >>

\* A mapping as an explicit table of its entries.
Table(f) == f @@ EmptyMap

(***************************************************************************)
(* Strings.                                                                *)
(***************************************************************************)
\* str.startswith
StartsWith(s, p) == Len(s) >= Len(p) /\ SubSeq(s, 1, Len(p)) = p

\* The delimiter between the segments of a nested key.
env_nested_delimiter == "__"

\* The index of the first occurrence of the delimiter in s at or after i, or 0.
RECURSIVE FindDelimiter(_, _)
FindDelimiter(s, i) ==
    IF i + Len(env_nested_delimiter) - 1 > Len(s) THEN 0
    ELSE IF SubSeq(s, i, i + Len(env_nested_delimiter) - 1) = env_nested_delimiter THEN i
    ELSE FindDelimiter(s, i + 1)

\* str.split(env_nested_delimiter): the segments of a flat name.
RECURSIVE SplitKey(_)
SplitKey(s) ==
    LET j == FindDelimiter(s, 1)
    IN  IF j = 0 THEN <<s>>
        ELSE <<SubSeq(s, 1, j - 1)>>
                 \o SplitKey(SubSeq(s, j + Len(env_nested_delimiter), Len(s)))

\* The flat key of a path: its segments joined with sep.
RECURSIVE JoinKey(_, _)
JoinKey(path, sep) ==
    IF Len(path) = 1 THEN path[1]
    ELSE path[1] \o sep \o JoinKey(Tail(path), sep)

Digits == <<"0", "1", "2", "3", "4", "5", "6", "7", "8", "9">>
IsDigit(c) == \E d \in 1..10 : Digits[d] = c
DigitValue(c) == (CHOOSE d \in 1..10 : Digits[d] = c) - 1

\* Whether a string is a decimal integer literal.
IsIntLiteral(s) ==
    /\ Len(s) >= 1
    /\ \A i \in 1..Len(s) : IsDigit(SubSeq(s, i, i))

\* int(s) of a decimal literal.
RECURSIVE ParseInt(_)
ParseInt(s) ==
    IF Len(s) = 0 THEN 0
    ELSE 10 * ParseInt(SubSeq(s, 1, Len(s) - 1)) + DigitValue(SubSeq(s, Len(s), Len(s)))

\* str.strip() of blanks and newlines at both ends.
IsBlank(c) == c = " " \/ c = "\n"
RECURSIVE Strip(_)
Strip(s) ==
    IF Len(s) = 0 THEN s
    ELSE IF IsBlank(SubSeq(s, 1, 1)) THEN Strip(SubSeq(s, 2, Len(s)))
    ELSE IF IsBlank(SubSeq(s, Len(s), Len(s))) THEN Strip(SubSeq(s, 1, Len(s) - 1))
    ELSE s

(***************************************************************************)
(* The schema: every leaf field of AppConfig with the input keys that set  *)
(* it inside its section (its validation aliases in their order of choice, *)
(* or its own name), its type and its default.                             *)
(***************************************************************************)
Field(path, keys, type, default) ==
    [path |-> path, keys |-> keys, type |-> type, default |-> default]

DBPerfConfig ==
    { Field(<<"DB", "PERF", "POOL_SIZE">>, <<"POOL_SIZE">>, "int", IntVal(20)),
      Field(<<"DB", "PERF", "WEB_CONCURRENCY">>, <<"WEB_CONCURRENCY">>, "int", IntVal(5)) }

DBConfig ==
    { Field(<<"DB", "DB_NAME">>, <<"DB_NAME">>, "str", Str("DBNAME")),
      Field(<<"DB", "SCHEMA_NAMES">>, <<"SCHEMA_NAMES">>, "str", Str("SCHEMA")),
      Field(<<"DB", "USERNAME">>, <<"USERNAME">>, "secret", SecretStr("DB_USERNAME")),
      Field(<<"DB", "PASSWORD">>, <<"PASSWORD">>, "secret", SecretStr("DB_PASS")),
      Field(<<"DB", "HOST">>, <<"HOST">>, "str", Str("127.0.0.1")),
      Field(<<"DB", "PORT">>, <<"PORT">>, "int", IntVal(5432)) }
    \cup DBPerfConfig

AWSConfig ==
    { Field(<<"AWS_CONFIG", "AWS_PROFILE">>,
            <<"AWS__AWS_PROFILE", "AWS_PROFILE">>, "optstr", None),
      Field(<<"AWS_CONFIG", "AWS_ACCESS_KEY_ID">>,
            <<"AWS__AWS_ACCESS_KEY_ID", "AWS_ACCESS_KEY_ID">>, "optsecret", None),
      Field(<<"AWS_CONFIG", "AWS_SECRET_ACCESS_KEY">>,
            <<"AWS__AWS_SECRET_ACCESS_KEY", "AWS_SECRET_ACCESS_KEY">>, "optsecret", None),
      Field(<<"AWS_CONFIG", "AWS_DEFAULT_REGION">>,
            <<"AWS_DEFAULT_REGION">>, "str", Str("us-east-1")) }

LookupDataConfig ==
    { Field(<<"LOOKUP_DATA", "DATA_FILE_1">>, <<"DATA_FILE_1">>, "file",
            Str("pyproject.toml")) }

LogLevel == {"CRITICAL", "ERROR", "WARNING", "INFO", "DEBUG"}

LoggingConfig ==
    { Field(<<"LOGGING", "LOG_LEVEL">>, <<"LOG_LEVEL">>, "loglevel", Str("INFO")),
      Field(<<"LOGGING", "LOG_FORMAT">>, <<"LOG_FORMAT">>, "format",
            Str("%(asctime)s - %(name)s - %(levelname)s - %(message)s")),
      Field(<<"LOGGING", "LOG_DATE_FORMAT">>, <<"LOG_DATE_FORMAT">>, "str",
            Str("%Y-%m-%d %H:%M:%S")) }

AppConfig ==
    { Field(<<"SERVICE_NAME">>, <<"SERVICE_NAME">>, "str", Str("my_service_name")) }
    \cup DBConfig \cup AWSConfig \cup LookupDataConfig \cup LoggingConfig

\* The leaf paths of the schema, and the field of a leaf path.
Leaves == {f.path : f \in AppConfig}
FieldOf(path) == CHOOSE f \in AppConfig : f.path = path

\* The top-level fields: the plain ones and the nested sections.
TopFields == {f.path[1] : f \in AppConfig}
SectionFields == {f.path[1] : f \in {g \in AppConfig : Len(g.path) > 1}}
PlainFields == TopFields \ SectionFields

\* The secret-marked leaves.
SecretLeaves == {f.path : f \in {g \in AppConfig : g.type \in {"secret", "optsecret"}}}

\* A variant of the settings that ignores extra keys.
DEFAULT_CONFIG_SETTINGS_extra_ignore ==
    [case_sensitive |-> TRUE, env_nested_delimiter |-> env_nested_delimiter,
     extra |-> "ignore", env_file |-> ".env", secrets_dir |-> "/run/secrets"]

\* The settings of BaseConfigModel.  The nested sections are plain BaseModel
\* classes and keep pydantic's own default for extra keys.
DEFAULT_CONFIG_SETTINGS ==
    [case_sensitive |-> TRUE, env_nested_delimiter |-> env_nested_delimiter,
     extra |-> "forbid", env_file |-> ".env", secrets_dir |-> "/run/secrets"]
NestedModelExtra == "ignore"

(***************************************************************************)
(* The source readers.  Every reader yields a tree: a mapping from the     *)
(* paths it supplies to raw values.                                        *)
(***************************************************************************)
\* Whether the environment reader looks at the variable named n: a plain
\* field by its exact name, a nested one under its section's prefix.
EnvUsed(n) ==
    LET p == SplitKey(n)
    IN  \/ Len(p) = 1 /\ p[1] \in PlainFields
        \/ Len(p) > 1 /\ p[1] \in SectionFields

\* env_settings: the variables of the process environment (always strings),
\* nested names exploded at the delimiter.
EnvSettingsSource(vars) ==
    Table([p \in {SplitKey(n) : n \in {m \in DOMAIN vars : EnvUsed(m)}} |->
            Str(vars[JoinKey(p, env_nested_delimiter)])])

\* Whether some field accounts for the dotenv variable named n.
DotEnvUsed(n) ==
    \/ n \in PlainFields
    \/ \E f \in SectionFields : StartsWith(n, f)

\* dotenv_settings: as the environment reader on the lines of the file; when
\* extra keys are not ignored, a non-empty line no field accounts for is handed
\* on under its own name.
DotEnvSettingsSource(file) ==
    IF ~file.exists THEN EmptyMap
    ELSE LET extras == IF DEFAULT_CONFIG_SETTINGS.extra = "ignore" THEN {}
                       ELSE {n \in DOMAIN file.vars :
                                file.vars[n] # "" /\ ~DotEnvUsed(n)}
         IN  EnvSettingsSource(file.vars)
                @@ [p \in {<<n>> : n \in extras} |-> Str(file.vars[p[1]])]

\* Whether a secret file holds a JSON document (else plain text).
IsJson(content) == DOMAIN content = {"json"}

\* file_secret_settings: one file per top-level field, looked up by the field's
\* name; a plain field takes the stripped text, a section the decoded JSON.
SecretsSettingsSource(dir) ==
    IF ~dir.exists THEN EmptyMap
    ELSE LET plain == PlainFields \cap DOMAIN dir.files
             nested == {f \in SectionFields \cap DOMAIN dir.files : IsJson(dir.files[f])}
             paths == {<<f>> : f \in plain}
                        \cup UNION {{<<f>> \o q : q \in DOMAIN dir.files[f].json} : f \in nested}
         IN  Table([p \in paths |->
                        IF Len(p) = 1 THEN Str(Strip(dir.files[p[1]].text))
                        ELSE dir.files[p[1]].json[Tail(p)]])

\* A section's secret file that is no JSON document cannot be decoded.
SecretsDecodeError(dir) ==
    /\ dir.exists
    /\ \E f \in SectionFields \cap DOMAIN dir.files : ~IsJson(dir.files[f])

\* init_settings: the keyword arguments of the constructor.
InitSettingsSource(kwargs) == kwargs

(***************************************************************************)
(* The precedence merge.                                                   *)
(***************************************************************************)
\* A variant of deep_update that overlays top-level key by top-level key: a
\* section updating supplies replaces the whole section of mapping.
deep_update_per_section(mapping, updating) ==
    Table([p \in DOMAIN updating
                  \cup {q \in DOMAIN mapping : \A u \in DOMAIN updating : u[1] # q[1]} |->
            IF p \in DOMAIN updating THEN updating[p] ELSE mapping[p]])

\* deep_update: mapping overlaid, leaf by leaf, with updating.
deep_update(mapping, updating) ==
    Table([p \in DOMAIN mapping \cup DOMAIN updating |->
            IF p \in DOMAIN updating THEN updating[p] ELSE mapping[p]])

\* The order of the sources, highest priority first.
settings_customise_sources ==
    <<"file_secret_settings", "env_settings", "dotenv_settings", "init_settings">>

\* The tree of each source for one construction.
SourceTrees(secrets, env, dotenv, kwargs) ==
    [file_secret_settings |-> SecretsSettingsSource(secrets),
     env_settings |-> EnvSettingsSource(env),
     dotenv_settings |-> DotEnvSettingsSource(dotenv),
     init_settings |-> InitSettingsSource(kwargs)]

\* The merged state: the sources are visited in their order and each one is
\* overlaid with what the sources before it supplied.
RECURSIVE BuildValuesFrom(_, _, _, _)
BuildValuesFrom(trees, order, i, state) ==
    IF i > Len(order) THEN state
    ELSE BuildValuesFrom(trees, order, i + 1, deep_update(trees[order[i]], state))

BuildValues(trees) == BuildValuesFrom(trees, settings_customise_sources, 1, EmptyMap)

(***************************************************************************)
(* Validation of the merged tree against the schema.                       *)
(***************************************************************************)
PathVal(s) == [fspath |-> s]

\* The project root and the files that exist under it.
PROJECT_BASE_DIR == "/project"
ExistingFiles == {PROJECT_BASE_DIR \o "/pyproject.toml"}

\* convert_to_absolute_path: a relative path is taken from the project root.
convert_to_absolute_path(s) ==
    IF StartsWith(s, "/") THEN s ELSE PROJECT_BASE_DIR \o "/" \o s

\* assert_file_exists
assert_file_exists(s) == s \in ExistingFiles

Valid(v) == [ok |-> TRUE, value |-> v]
Invalid(t) == [ok |-> FALSE, type |-> t]

\* A variant of ValidateValue that keeps the raw value as it came.
ValidateValueWithoutCoercion(type, v) == Valid(v)

\* The typed value of a raw value for a field type, or the error.
ValidateValue(type, v) ==
    CASE type = "str" ->
            IF IsStr(v) THEN Valid(v) ELSE Invalid("string_type")
      [] type = "int" ->
            IF IsInt(v) THEN Valid(v)
            ELSE IF IsStr(v) /\ IsIntLiteral(Strip(v.str))
                 THEN Valid(IntVal(ParseInt(Strip(v.str))))
            ELSE Invalid("int_parsing")
      [] type = "secret" ->
            IF IsStr(v) THEN Valid(SecretStr(v.str)) ELSE Invalid("string_type")
      [] type = "optstr" ->
            IF IsNone(v) \/ IsStr(v) THEN Valid(v) ELSE Invalid("string_type")
      [] type = "optsecret" ->
            IF IsNone(v) THEN Valid(v)
            ELSE IF IsStr(v) THEN Valid(SecretStr(v.str))
            ELSE Invalid("string_type")
      [] type = "loglevel" ->
            IF IsStr(v) /\ v.str \in LogLevel THEN Valid(v) ELSE Invalid("enum")
      [] type = "format" ->
            IF IsStr(v) /\ Len(v.str) >= 1 THEN Valid(v) ELSE Invalid("string_too_short")
      [] type = "file" ->
            IF IsStr(v) /\ assert_file_exists(convert_to_absolute_path(v.str))
            THEN Valid(PathVal(convert_to_absolute_path(v.str)))
            ELSE Invalid("assertion_error")

\* The input paths that set a field, in the order they are tried.
InputPaths(f) ==
    [i \in 1..Len(f.keys) |-> SubSeq(f.path, 1, Len(f.path) - 1) \o <<f.keys[i]>>]

\* Whether the tree supplies the field, and the raw value it supplies: the
\* first of the field's input keys that is present.
Supplies(tree, f) == \E i \in 1..Len(f.keys) : InputPaths(f)[i] \in DOMAIN tree
RawValue(tree, f) ==
    LET i == CHOOSE j \in 1..Len(f.keys) :
                /\ InputPaths(f)[j] \in DOMAIN tree
                /\ \A k \in 1..(j - 1) : InputPaths(f)[k] \notin DOMAIN tree
    IN  tree[InputPaths(f)[i]]

\* Every input path some field reads.
KnownPaths == UNION {{InputPaths(f)[i] : i \in 1..Len(f.keys)} : f \in AppConfig}

\* The errors for keys the schema does not declare: at the top level under
\* the settings of BaseConfigModel, inside a section under the section's own.
ExtraKeyErrors(tree) ==
    {[loc |-> <<p[1]>>, type |-> "extra_forbidden"] :
        p \in {q \in DOMAIN tree : DEFAULT_CONFIG_SETTINGS.extra = "forbid"
                                    /\ q[1] \notin TopFields}}
    \cup
    {[loc |-> p, type |-> "extra_forbidden"] :
        p \in {q \in DOMAIN tree : NestedModelExtra = "forbid"
                                    /\ q[1] \in SectionFields /\ q \notin KnownPaths}}

\* A variant of FieldResult that leaves a number no source supplies at zero.
FieldResultWithoutDefault(tree, f) ==
    IF Supplies(tree, f) THEN ValidateValue(f.type, RawValue(tree, f))
    ELSE IF f.type = "int" THEN Valid(IntVal(0))
    ELSE Valid(f.default)

\* What validation makes of every leaf: the validated value where the tree
\* supplies the field, its default (which is not validated) where it does not.
FieldResult(tree, f) ==
    IF Supplies(tree, f) THEN ValidateValue(f.type, RawValue(tree, f))
    ELSE Valid(f.default)

FieldResults(tree) == Table([p \in Leaves |-> FieldResult(tree, FieldOf(p))])

\* The errors of the fields.
FieldErrors(results) ==
    {[loc |-> p, type |-> results[p].type] : p \in {q \in Leaves : ~results[q].ok}}

\* The typed value of every leaf.
FieldValues(results) == [p \in Leaves |-> results[p].value]

\* A variant of validate_auth_config that is content with either key.
validate_auth_config_either_key(config) ==
    \/ config[<<"AWS_CONFIG", "AWS_PROFILE">>] # None
    \/ config[<<"AWS_CONFIG", "AWS_ACCESS_KEY_ID">>] # None
    \/ config[<<"AWS_CONFIG", "AWS_SECRET_ACCESS_KEY">>] # None

\* AWSConfig.validate_auth_config
validate_auth_config(config) ==
    LET has_profile == config[<<"AWS_CONFIG", "AWS_PROFILE">>] # None
        has_access_keys ==
            /\ config[<<"AWS_CONFIG", "AWS_ACCESS_KEY_ID">>] # None
            /\ config[<<"AWS_CONFIG", "AWS_SECRET_ACCESS_KEY">>] # None
    IN  has_profile \/ has_access_keys

\* The errors of the whole-model validators, which run on a section once its
\* fields are valid.
ModelValidatorErrors(results) ==
    IF /\ \A p \in Leaves : p[1] = "AWS_CONFIG" => results[p].ok
       /\ ~validate_auth_config(FieldValues(results))
    THEN {[loc |-> <<"AWS_CONFIG">>, type |-> "value_error"]}
    ELSE {}

\* model_validate: every error found, and the configuration when there is none.
ModelValidate(tree) ==
    LET results == FieldResults(tree)
        errors == ExtraKeyErrors(tree) \cup FieldErrors(results)
                    \cup ModelValidatorErrors(results)
    IN  [errors |-> errors,
         config |-> IF errors = {} THEN Table(FieldValues(results)) ELSE EmptyMap]

\* AppConfig(**kwargs): the outcome of one construction from the sources as
\* they are: the exception raised ("none" when it succeeds), the validation
\* errors and the configuration built.
Construct(secrets, env, dotenv, kwargs) ==
    IF SecretsDecodeError(secrets)
    THEN [exc |-> "SettingsError", errors |-> {}, config |-> EmptyMap]
    ELSE LET v == ModelValidate(BuildValues(SourceTrees(secrets, env, dotenv, kwargs)))
         IN  IF v.errors = {}
             THEN [exc |-> "none", errors |-> {}, config |-> v.config]
             ELSE [exc |-> "ValidationError", errors |-> v.errors, config |-> EmptyMap]

(***************************************************************************)
(* Secret masking and serialization.                                       *)
(***************************************************************************)
\* A variant of SecretDisplay that shows the value.
SecretDisplayUnmasked(s) == s

\* str(SecretStr): the mask of a secret that holds something, else nothing.
SecretDisplay(s) == IF s # "" THEN "**********" ELSE ""

\* SecretStr.get_secret_value()
get_secret_value(v) == v.secret

\* str(value) of a typed value.
RECURSIVE IntToString(_)
IntToString(n) ==
    IF n < 10 THEN Digits[n + 1]
    ELSE IntToString(n \div 10) \o Digits[(n % 10) + 1]

PyStr(v) ==
    IF IsSecret(v) THEN SecretDisplay(v.secret)
    ELSE IF IsInt(v) THEN IntToString(v.int)
    ELSE IF IsNone(v) THEN "None"
    ELSE IF IsBool(v) THEN (IF v.bool THEN "True" ELSE "False")
    ELSE IF DOMAIN v = {"fspath"} THEN v.fspath
    ELSE v.str

\* str.lower() of the two strings a boolean prints as.
Lower(s) ==
    CASE s = "True" -> "true"
      [] s = "False" -> "false"
      [] OTHER -> s

\* ",".join(str(item) for item in items)
RECURSIVE CommaJoin(_)
CommaJoin(items) ==
    IF Len(items) = 0 THEN ""
    ELSE IF Len(items) = 1 THEN PyStr(items[1])
    ELSE PyStr(items[1]) \o "," \o CommaJoin(Tail(items))

\* A variant of SerializeLeaf that writes a secret's value in JSON mode.
SerializeLeafUnmasked(v, mode) ==
    IF mode = "python" THEN v
    ELSE IF IsSecret(v) THEN Str(get_secret_value(v))
    ELSE IF DOMAIN v = {"fspath"} THEN Str(v.fspath)
    ELSE v

\* One leaf as model_dump serializes it: python mode keeps the object, JSON
\* mode turns a secret into its display string and a path into its string.
SerializeLeaf(v, mode) ==
    IF mode = "python" THEN v
    ELSE IF IsSecret(v) THEN Str(SecretDisplay(v.secret))
    ELSE IF DOMAIN v = {"fspath"} THEN Str(v.fspath)
    ELSE v

\* config.model_dump(mode=..., exclude_none=...): the tree of the leaves.
model_dump(config, mode, exclude_none) ==
    Table([p \in {q \in DOMAIN config : ~(exclude_none /\ IsNone(config[q]))} |->
            SerializeLeaf(config[p], mode)])

\* config.model_dump_json(): the JSON document of the JSON-mode dump.
model_dump_json(config) == [json |-> model_dump(config, "json", FALSE)]

(***************************************************************************)
(* config_exporter: the flat dotenv form.                                  *)
(***************************************************************************)
\* The string a leaf of the dictionary flattens to, by the branch that takes
\* it: a list, null, a boolean, a string, anything else.
FlattenValue(v, null_value) ==
    IF IsList(v) THEN CommaJoin(v.list)
    ELSE IF IsNone(v) THEN null_value
    ELSE IF IsBool(v) THEN Lower(PyStr(v))
    ELSE IF IsStr(v) THEN v.str
    ELSE PyStr(v)

\* A variant of FlattenSkips that leaves nothing out.
FlattenSkipsNothing(v, skip_secret_values) == FALSE

\* Whether a leaf is left out: a string that begins with eight asterisks.
FlattenSkips(v, skip_secret_values) ==
    IsStr(v) /\ StartsWith(v.str, "********") /\ skip_secret_values

\* The items _flatten_config_dict collects for the leaves at the given paths:
\* one per leaf that is not left out, under the joined key.  The call for a
\* nested dictionary passes sep on and nothing else, so the leaves below the
\* top level are flattened with the default null_value and skip_secret_values.
RECURSIVE FlattenItems(_, _, _, _, _)
FlattenItems(config_dict, paths, sep, null_value, skip_secret_values) ==
    IF paths = {} THEN EmptyMap
    ELSE LET p == CHOOSE q \in paths : TRUE
             rest == FlattenItems(config_dict, paths \ {p}, sep, null_value,
                                  skip_secret_values)
             null == IF Len(p) = 1 THEN null_value ELSE "None"
             skip == IF Len(p) = 1 THEN skip_secret_values ELSE TRUE
         IN  IF FlattenSkips(config_dict[p], skip) THEN rest
             ELSE (JoinKey(p, sep) :> FlattenValue(config_dict[p], null)) @@ rest

\* _flatten_config_dict(config_dict) with its default arguments.
flatten_config_dict(config_dict) ==
    FlattenItems(config_dict, DOMAIN config_dict, "__", "None", TRUE)

\* Whether a string holds a blank.
HasSpace(s) == \E i \in 1..Len(s) : SubSeq(s, i, i) = " "

\* The text written after "key=" for a value.
DotenvLine(value) == IF HasSpace(value) THEN "'" \o value \o "'" ELSE value

(***************************************************************************)
(* The state of the process and of the sources it reads.                   *)
(***************************************************************************)
VARIABLES
    environ,         \* os.environ: variable name -> string
    dotenv_file,     \* the .env file of the project: [exists, vars]
    secrets_dir,     \* /run/secrets: [exists, files]
    yaml_file,       \* config.yaml of the project: [exists, doc]
    cache,           \* the lru_cache of get_config: NoCache or the cached instance
    heap,            \* the AppConfig instances built so far: id -> field values
    config_sources,  \* base._config_sources
    root_logger,     \* logging.getLogger(): [handlers, level]
    reports,         \* the source reports the logger emitted
    yaml_dump,       \* the file dump_config_to_yaml wrote
    dotenv_dump,     \* the file dump_config_to_dotenv wrote
    last,            \* the last call of get_config or cache_clear and its outcome:
                     \* [op, exc, errors, ret, ran], and what the export that made
                     \* the call raised: export_exc
    loads,           \* how many times the body of get_config has run
    threads,         \* the threads of the process that call get_config:
                     \* thread -> [pc, kwargs, built, ret, exc]
    flattened,       \* a call of _flatten_config_dict: [config_dict, called, flat_config]
    edits            \* how many times the sources were changed

sources == <<environ, dotenv_file, secrets_dir, yaml_file>>
process == <<cache, heap, config_sources, root_logger, reports, yaml_dump, dotenv_dump, last,
             loads, threads, flattened>>
vars == <<sources, process, edits>>

\* Bounds of the model: the loads of one run, the source changes of one run.
MaxLoads == 2
MaxEdits == 2

\* Bound of the model: the length the list of source records may reach.
MaxRecords == 7

NoCache == 0

\* A dictionary _flatten_config_dict has not been called on yet.
NotFlattened(config_dict) ==
    [config_dict |-> config_dict, called |-> FALSE, flat_config |-> EmptyMap]

\* The threads that call get_config, and a thread that is not in a call.
Threads == {"t1", "t2"}
Idle == [pc |-> "idle", kwargs |-> EmptyMap, built |-> NoCache, ret |-> NoCache, exc |-> "none"]

Unwritten == [written |-> FALSE, content |-> EmptyMap]
Written(content) == [written |-> TRUE, content |-> content]

(***************************************************************************)
(* Source tracking.                                                        *)
(***************************************************************************)
ConfigSource(source_type, path, available, description) ==
    [source_type |-> source_type, path |-> path, available |-> available,
     description |-> description]

\* track_config_source: the list with one more record.
track_config_source(list, record) == Append(list, record)

\* clear_config_sources
clear_config_sources == << >>

\* BaseConfigModel._track_all_sources: the records of the secrets directory,
\* the environment and the dotenv file, at the class-level locations.
SecretsSource ==
    ConfigSource("secrets", DEFAULT_CONFIG_SETTINGS.secrets_dir, secrets_dir.exists,
                 "Docker secrets directory: " \o DEFAULT_CONFIG_SETTINGS.secrets_dir)

EnvironmentSource ==
    ConfigSource("environment", "system environment", TRUE, "System environment variables")

DotenvSource ==
    ConfigSource("dotenv", PROJECT_BASE_DIR \o "/" \o DEFAULT_CONFIG_SETTINGS.env_file,
                 dotenv_file.exists,
                 "Dotenv file: " \o PROJECT_BASE_DIR \o "/" \o DEFAULT_CONFIG_SETTINGS.env_file)

track_all_sources(list) ==
    track_config_source(
        track_config_source(track_config_source(list, SecretsSource), EnvironmentSource),
        DotenvSource)

(***************************************************************************)
(* load_config_yaml                                                        *)
(***************************************************************************)
\* Python objects a YAML document parses to.
PyNone == [py |-> "None", tree |-> EmptyMap]
PyDict(tree) == [py |-> "dict", tree |-> tree]
PyList == [py |-> "list", tree |-> EmptyMap]
PyScalar == [py |-> "str", tree |-> EmptyMap]

\* parse_yaml_file_as_dict: what the parser returns, or that it raised.
parse_yaml_file_as_dict(doc) ==
    CASE doc.kind = "invalid" -> [raised |-> TRUE, value |-> PyNone]
      [] doc.kind = "empty" -> [raised |-> FALSE, value |-> PyNone]
      [] doc.kind = "sequence" -> [raised |-> FALSE, value |-> PyList]
      [] doc.kind = "scalar" -> [raised |-> FALSE, value |-> PyScalar]
      [] doc.kind = "mapping" -> [raised |-> FALSE, value |-> PyDict(doc.tree)]

\* A variant of YamlSource that records the file as available without looking.
YamlSourceAlwaysAvailable ==
    ConfigSource("yaml", PROJECT_BASE_DIR \o "/config.yaml", TRUE,
                 "YAML configuration file: config.yaml")

\* The record load_config_yaml tracks for the file.
YamlSource ==
    ConfigSource("yaml", PROJECT_BASE_DIR \o "/config.yaml", yaml_file.exists,
                 "YAML configuration file: config.yaml")

\* A variant of load_config_yaml that does not catch what the parser raises.
load_config_yaml_uncaught ==
    IF ~yaml_file.exists THEN [raised |-> FALSE, value |-> PyNone]
    ELSE parse_yaml_file_as_dict(yaml_file.doc)

\* load_config_yaml: None for a file that is not there and for one the parser
\* raises on (the exception is caught), else what the parser returned.
load_config_yaml ==
    IF ~yaml_file.exists THEN [raised |-> FALSE, value |-> PyNone]
    ELSE IF parse_yaml_file_as_dict(yaml_file.doc).raised
         THEN [raised |-> FALSE, value |-> PyNone]
    ELSE parse_yaml_file_as_dict(yaml_file.doc)

(***************************************************************************)
(* Logging.                                                                *)
(***************************************************************************)
LevelNo == [CRITICAL |-> 50, ERROR |-> 40, WARNING |-> 30, INFO |-> 20, DEBUG |-> 10]

\* setup_logging(config.LOGGING): nothing when the root logger has handlers,
\* else the level is set and one console handler is added.
setup_logging(logger, level) ==
    IF logger.handlers > 0 THEN logger
    ELSE [handlers |-> logger.handlers + 1, level |-> level]

\* print_config_sources: the report handed to logger.info, which emits it when
\* INFO is enabled.
SourceReport(list) ==
    [i \in 1..Len(list) |-> [source_type |-> list[i].source_type,
                             available |-> list[i].available,
                             description |-> list[i].description]]

\* A variant of print_config_sources whose report gets out at every level.
print_config_sources_at_any_level(logger, list, emitted) ==
    Append(emitted, SourceReport(list))

print_config_sources(logger, list, emitted) ==
    IF LevelNo[logger.level] <= LevelNo["INFO"]
    THEN Append(emitted, SourceReport(list))
    ELSE emitted

(***************************************************************************)
(* get_config                                                              *)
(***************************************************************************)
\* What a call leaves behind and what it returns or raises.
Outcome(exc, errors, ret, ran, c, h, list, logger, emitted) ==
    [exc |-> exc, errors |-> errors, ret |-> ret, ran |-> ran, cache |-> c, heap |-> h,
     config_sources |-> list, root_logger |-> logger, reports |-> emitted]

\* A variant of ConstructAndCache that returns and caches what was built when
\* the construction failed.
ConstructAndCacheDegraded(kwargs, tracked_yaml) ==
    LET tracked == track_all_sources(tracked_yaml)
        built == Construct(secrets_dir, environ, dotenv_file, kwargs)
        id == Cardinality(DOMAIN heap) + 1
    IN  Outcome("none", {}, id, TRUE, id, heap @@ (id :> built.config), tracked,
                root_logger, reports)

\* get_config from the construction on: the sources are tracked, the instance
\* is built, logging is set up, the sources are reported, the instance is cached.
ConstructAndCache(kwargs, tracked_yaml) ==
    LET tracked == track_all_sources(tracked_yaml)
        built == Construct(secrets_dir, environ, dotenv_file, kwargs)
        id == Cardinality(DOMAIN heap) + 1
        logger == setup_logging(root_logger, built.config[<<"LOGGING", "LOG_LEVEL">>].str)
    IN  IF built.exc # "none"
        THEN Outcome(built.exc, built.errors, NoCache, TRUE, cache, heap, tracked,
                     root_logger, reports)
        ELSE Outcome("none", {}, id, TRUE, id, heap @@ (id :> built.config), tracked,
                     logger, print_config_sources(logger, tracked, reports))

\* The body of get_config, run on a cache miss.
get_config_body ==
    LET loaded == load_config_yaml
        yaml_config == IF loaded.value = PyNone THEN PyDict(EmptyMap) ELSE loaded.value
        tracked_yaml == track_config_source(clear_config_sources, YamlSource)
    IN  IF loaded.raised
        THEN Outcome("YAMLError", {}, NoCache, TRUE, cache, heap, tracked_yaml,
                     root_logger, reports)
        ELSE IF yaml_config.py # "dict"
        THEN \* AppConfig(**yaml_config) needs a mapping
             Outcome("TypeError", {}, NoCache, TRUE, cache, heap, tracked_yaml,
                     root_logger, reports)
        ELSE ConstructAndCache(yaml_config.tree, tracked_yaml)

\* A variant of get_config without the cache: the body runs on every call.
get_config_uncached == get_config_body

\* get_config(): the cached instance on a hit, the body on a miss.
get_config ==
    IF cache # NoCache
    THEN Outcome("none", {}, cache, FALSE, cache, heap, config_sources, root_logger, reports)
    ELSE get_config_body

\* Whether a call may run within the bounds of the model: it is served from
\* the cache or a further load is allowed.
CanLoad == cache # NoCache \/ loads < MaxLoads

\* The effect of a call of get_config on the state of the process.
CallGetConfig(r, export_exc) ==
    /\ cache' = r.cache
    /\ heap' = r.heap
    /\ config_sources' = r.config_sources
    /\ root_logger' = r.root_logger
    /\ reports' = r.reports
    /\ last' = [op |-> "get_config", exc |-> r.exc, errors |-> r.errors,
                 ret |-> r.ret, ran |-> r.ran, export_exc |-> export_exc]
    /\ loads' = IF r.ran THEN loads + 1 ELSE loads

(***************************************************************************)
(* The operations.                                                         *)
(***************************************************************************)
GetConfig ==
    /\ CanLoad
    /\ \E r \in {get_config} : CallGetConfig(r, "none")
    /\ UNCHANGED <<flattened, threads, sources, yaml_dump, dotenv_dump, edits>>

\* A variant of cache_clear that keeps the cached instance.
CacheClearKeepsInstance ==
    /\ last' = [op |-> "cache_clear", exc |-> "none", errors |-> {}, ret |-> NoCache,
                 ran |-> FALSE, export_exc |-> "none"]
    /\ UNCHANGED <<flattened, threads, sources, cache, heap, config_sources, root_logger, reports,
                   yaml_dump, dotenv_dump, loads, edits>>

\* get_config.cache_clear()
CacheClear ==
    /\ cache' = NoCache
    /\ last' = [op |-> "cache_clear", exc |-> "none", errors |-> {}, ret |-> NoCache,
                 ran |-> FALSE, export_exc |-> "none"]
    /\ UNCHANGED <<flattened, threads, sources, heap, config_sources, root_logger, reports,
                   yaml_dump, dotenv_dump, loads, edits>>

\* The keyword arguments a consumer hands to AppConfig directly.
DirectKwargs ==
    {EmptyMap, [p \in {<<"AWS_CONFIG", "AWS_PROFILE">>} |-> Str("direct_profile")]}

\* AppConfig(**kwargs) called by a consumer, not through get_config: the
\* sources are tracked onto the list as it is, then the instance is built and
\* handed to the caller alone.
DirectConstruct(kwargs) ==
    /\ Len(config_sources) + 3 <= MaxRecords
    /\ config_sources' = track_all_sources(config_sources)
    /\ \E built \in {Construct(secrets_dir, environ, dotenv_file, kwargs)} :
          last' = [op |-> "AppConfig", exc |-> built.exc, errors |-> built.errors,
                   ret |-> NoCache, ran |-> FALSE, export_exc |-> "none"]
    /\ UNCHANGED <<flattened, threads, sources, cache, heap, root_logger, reports, yaml_dump, dotenv_dump,
                   loads, edits>>

\* dump_config_to_yaml(): the JSON-mode dump written as a YAML document.
DumpConfigToYaml ==
    /\ CanLoad
    /\ \E r \in {get_config} :
           /\ CallGetConfig(r, r.exc)
           /\ yaml_dump' = IF r.exc # "none" THEN yaml_dump
                           ELSE Written(model_dump(r.heap[r.ret], "json", FALSE))
    /\ UNCHANGED <<flattened, threads, sources, dotenv_dump, edits>>

\* The keyword arguments a caller hands to dump_config_to_dotenv.
DumpKwargs == {{}, {"exclude_none"}, {"mode"}}

\* dump_config_to_dotenv(**kwargs): the JSON-mode dump, flattened, one line
\* per key.  A mode among the kwargs collides with the one the function sets.
DumpConfigToDotenv(kwargs) ==
    /\ CanLoad
    /\ \E r \in {get_config} :
        IF r.exc # "none"
        THEN CallGetConfig(r, r.exc) /\ dotenv_dump' = dotenv_dump
        ELSE IF "mode" \in kwargs
        THEN CallGetConfig(r, "TypeError") /\ dotenv_dump' = dotenv_dump
        ELSE \E config_dict \in {model_dump(r.heap[r.ret], "json", "exclude_none" \in kwargs)} :
             \E flat_config \in {flatten_config_dict(config_dict)} :
                /\ CallGetConfig(r, "none")
                /\ dotenv_dump' = Written(Table([k \in DOMAIN flat_config |->
                                                    DotenvLine(flat_config[k])]))
    /\ UNCHANGED <<flattened, threads, sources, yaml_dump, edits>>

(***************************************************************************)
(* The contents the sources take in the model.  Every source supplies at   *)
(* most one key at a time; its values are the tests' (a value names its    *)
(* source), plus an empty secret, a secret that reads as the mask, a value *)
(* with a blank and keys the schema does not declare.                      *)
(***************************************************************************)
Single(name, value) == [n \in {name} |-> value]

EnvEntries ==
    { <<"SERVICE_NAME", "env_value">>,
      <<"DB__PORT", "2222">>,
      <<"DB__USERNAME", "env_user">>,
      <<"DB__USERNAME", "">>,
      <<"AWS_CONFIG__AWS_PROFILE", "env_profile">>,
      <<"AWS_CONFIG__AWS_ACCESS_KEY_ID", "env_key_id">>,
      <<"TYPO", "env_value">> }

DotenvEntries ==
    { <<"SERVICE_NAME", "dotenv_value">>,
      <<"DB__PORT", "9999">>,
      <<"DB__USERNAME", "**********">>,
      <<"AWS_CONFIG__AWS_PROFILE", "dotenv_profile">>,
      <<"AWS_CONFIG__AWS_SECRET_ACCESS_KEY", "dotenv key">>,
      <<"TYPO", "dotenv_value">>,
      <<"DB__TYPO", "dotenv_value">> }

SecretsEntries ==
    { <<"SERVICE_NAME", [text |-> "secret_value\n"]>>,
      <<"DB__PORT", [text |-> "1111"]>>,
      <<"AWS_CONFIG", [json |-> Single(<<"AWS_PROFILE">>, Str("secret_profile"))]>> }

YamlTrees ==
    { Single(<<"SERVICE_NAME">>, Str("file_value")),
      Single(<<"DB", "PORT">>, IntVal(4444)),
      Single(<<"DB", "HOST">>, Str("file.host")),
      Single(<<"AWS_CONFIG", "AWS_PROFILE">>, Str("file_profile")),
      Single(<<"AWS_CONFIG", "AWS__AWS_PROFILE">>, Str("file_alias_profile")),
      Single(<<"LOGGING", "LOG_LEVEL">>, Str("WARNING")),
      Single(<<"TYPO">>, Str("file_value")),
      Single(<<"DB", "PERF", "TYPO">>, IntVal(1)) }

EnvOptions == {EmptyMap} \cup {Single(e[1], e[2]) : e \in EnvEntries}

DotenvOptions ==
    {[exists |-> FALSE, vars |-> EmptyMap]}
    \cup {[exists |-> TRUE, vars |-> Single(e[1], e[2])] : e \in DotenvEntries}

SecretsOptions ==
    {[exists |-> FALSE, files |-> EmptyMap]}
    \cup {[exists |-> TRUE, files |-> Single(e[1], e[2])] : e \in SecretsEntries}

YamlDoc(kind, tree) == [kind |-> kind, tree |-> tree]

YamlOptions ==
    {[exists |-> FALSE, doc |-> YamlDoc("none", EmptyMap)]}
    \cup {[exists |-> TRUE, doc |-> YamlDoc(k, EmptyMap)] : k \in {"invalid", "empty", "sequence", "scalar"}}
    \cup {[exists |-> TRUE, doc |-> YamlDoc("mapping", t)] : t \in YamlTrees}

(***************************************************************************)
(* The specifications.                                                     *)
(***************************************************************************)
\* A process that has just started: nothing cached, nothing tracked, the root
\* logger as the logging module creates it.
InitProcess ==
    /\ cache = NoCache
    /\ heap = EmptyMap
    /\ config_sources = << >>
    /\ root_logger = [handlers |-> 0, level |-> "WARNING"]
    /\ reports = << >>
    /\ yaml_dump = Unwritten
    /\ dotenv_dump = Unwritten
    /\ last = [op |-> "start", exc |-> "none", errors |-> {}, ret |-> NoCache, ran |-> FALSE,
                export_exc |-> "none"]
    /\ loads = 0
    /\ threads = [t \in Threads |-> Idle]
    /\ flattened = NotFlattened(EmptyMap)
    /\ edits = 0

\* The process starts with no source at all; the sources change while it runs.
Init ==
    /\ environ = EmptyMap
    /\ dotenv_file = [exists |-> FALSE, vars |-> EmptyMap]
    /\ secrets_dir = [exists |-> FALSE, files |-> EmptyMap]
    /\ yaml_file = [exists |-> FALSE, doc |-> YamlDoc("none", EmptyMap)]
    /\ InitProcess

\* The contents a source takes while the process runs.
RunEnvOptions ==
    {e \in EnvOptions : DOMAIN e \subseteq {"SERVICE_NAME", "AWS_CONFIG__AWS_PROFILE"}}
RunDotenvOptions == {d \in DotenvOptions : DOMAIN d.vars \subseteq {"DB__PORT"}}
RunSecretsOptions == {d \in SecretsOptions : DOMAIN d.files \subseteq {"SERVICE_NAME"}}
RunYamlOptions ==
    {y \in YamlOptions :
        DOMAIN y.doc.tree \subseteq {<<"SERVICE_NAME">>, <<"LOGGING", "LOG_LEVEL">>}}

\* Somebody outside the process changes one source.
SetEnviron ==
    /\ edits < MaxEdits
    /\ \E e \in RunEnvOptions : environ' = e /\ e # environ
    /\ edits' = edits + 1
    /\ UNCHANGED <<dotenv_file, secrets_dir, yaml_file, process>>

WriteDotenv ==
    /\ edits < MaxEdits
    /\ \E d \in RunDotenvOptions : dotenv_file' = d /\ d # dotenv_file
    /\ edits' = edits + 1
    /\ UNCHANGED <<environ, secrets_dir, yaml_file, process>>

WriteSecrets ==
    /\ edits < MaxEdits
    /\ \E d \in RunSecretsOptions : secrets_dir' = d /\ d # secrets_dir
    /\ edits' = edits + 1
    /\ UNCHANGED <<environ, dotenv_file, yaml_file, process>>

WriteYaml ==
    /\ edits < MaxEdits
    /\ \E y \in RunYamlOptions : yaml_file' = y /\ y # yaml_file
    /\ edits' = edits + 1
    /\ UNCHANGED <<environ, dotenv_file, secrets_dir, process>>

Next ==
    \/ GetConfig
    \/ CacheClear
    \/ DumpConfigToYaml
    \/ \E kwargs \in DumpKwargs : DumpConfigToDotenv(kwargs)
    \/ \E kwargs \in DirectKwargs : DirectConstruct(kwargs)
    \/ SetEnviron
    \/ WriteDotenv
    \/ WriteSecrets
    \/ WriteYaml

Spec == Init /\ [][Next]_vars

\* Every combination of source contents, fixed while the process runs.
InitLoad ==
    /\ environ \in EnvOptions
    /\ dotenv_file \in DotenvOptions
    /\ secrets_dir \in SecretsOptions
    /\ yaml_file \in YamlOptions
    /\ InitProcess

NextLoad ==
    \/ GetConfig
    \/ DumpConfigToYaml
    \/ \E kwargs \in DumpKwargs : DumpConfigToDotenv(kwargs)

SpecLoad == InitLoad /\ [][NextLoad]_vars

\* The exported YAML file is put in the place of config.yaml, every other
\* source is taken away and the cache is cleared, so that the next call of
\* get_config loads the export alone.
InstallYamlDump ==
    /\ yaml_dump.written
    /\ cache # NoCache
    /\ yaml_file' = [exists |-> TRUE, doc |-> YamlDoc("mapping", yaml_dump.content)]
    /\ environ' = EmptyMap
    /\ dotenv_file' = [exists |-> FALSE, vars |-> EmptyMap]
    /\ secrets_dir' = [exists |-> FALSE, files |-> EmptyMap]
    /\ cache' = NoCache
    /\ last' = [op |-> "cache_clear", exc |-> "none", errors |-> {}, ret |-> NoCache,
                 ran |-> FALSE, export_exc |-> "none"]
    /\ UNCHANGED <<flattened, threads, heap, config_sources, root_logger, reports, yaml_dump, dotenv_dump,
                   loads, edits>>

NextRoundTrip ==
    \/ GetConfig
    \/ DumpConfigToYaml
    \/ InstallYamlDump

\* Loads and YAML exports from every combination of source contents, and the
\* reload of an export.
SpecRoundTrip == InitLoad /\ [][NextRoundTrip]_vars

(***************************************************************************)
(* _flatten_config_dict on dictionaries of every shape: leaves at one, two *)
(* and three levels that hold null, booleans, integers, strings (with a    *)
(* blank, with the text None, with asterisks) and lists.                   *)
(***************************************************************************)
FlattenPaths == {<<"A">>, <<"S", "B">>, <<"S", "T", "C">>}

FlattenLeaves ==
    { None, Bool(TRUE), Bool(FALSE), IntVal(7),
      Str("x"), Str("a b"), Str("None"), Str("**********"), Str("********x"),
      ListVal(<< >>), ListVal(<<Str("a"), IntVal(1)>>), ListVal(<<Bool(TRUE), None>>) }

\* Every dictionary with leaves from FlattenLeaves at some of the paths.
FlattenInputs ==
    UNION {[paths -> FlattenLeaves] : paths \in SUBSET FlattenPaths}

\* flat_config = _flatten_config_dict(config_dict)
CallFlatten ==
    /\ ~flattened.called
    /\ flattened' = [config_dict |-> flattened.config_dict, called |-> TRUE,
                      flat_config |-> flatten_config_dict(flattened.config_dict)]
    /\ UNCHANGED <<sources, cache, heap, config_sources, root_logger, reports, yaml_dump,
                   dotenv_dump, last, loads, threads, edits>>

InitFlatten ==
    /\ environ = EmptyMap
    /\ dotenv_file = [exists |-> FALSE, vars |-> EmptyMap]
    /\ secrets_dir = [exists |-> FALSE, files |-> EmptyMap]
    /\ yaml_file = [exists |-> FALSE, doc |-> YamlDoc("none", EmptyMap)]
    /\ cache = NoCache
    /\ heap = EmptyMap
    /\ config_sources = << >>
    /\ root_logger = [handlers |-> 0, level |-> "WARNING"]
    /\ reports = << >>
    /\ yaml_dump = Unwritten
    /\ dotenv_dump = Unwritten
    /\ last = [op |-> "start", exc |-> "none", errors |-> {}, ret |-> NoCache, ran |-> FALSE,
                export_exc |-> "none"]
    /\ loads = 0
    /\ threads = [t \in Threads |-> Idle]
    /\ edits = 0
    /\ \E config_dict \in FlattenInputs : flattened = NotFlattened(config_dict)

NextFlatten == CallFlatten

SpecFlatten == InitFlatten /\ [][NextFlatten]_vars

(***************************************************************************)
(* The exports of configurations whose plain fields hold every kind of     *)
(* text: the environment sets any of four variables, two of them to texts  *)
(* that begin with asterisks.                                              *)
(***************************************************************************)
ExportEnvEntries ==
    [SERVICE_NAME |-> {"env_value", "********x"},
     DB__HOST |-> {"env.host", "**********"},
     DB__USERNAME |-> {"env_user"},
     AWS_CONFIG__AWS_PROFILE |-> {"env_profile"}]

\* Every environment that sets some of the variables to one of their texts.
ExportEnvOptions ==
    UNION {{e \in [names -> UNION {ExportEnvEntries[n] : n \in names}] :
               \A n \in names : e[n] \in ExportEnvEntries[n]} :
           names \in SUBSET DOMAIN ExportEnvEntries}

InitExport ==
    /\ environ \in ExportEnvOptions
    /\ dotenv_file = [exists |-> FALSE, vars |-> EmptyMap]
    /\ secrets_dir = [exists |-> FALSE, files |-> EmptyMap]
    /\ yaml_file = [exists |-> FALSE, doc |-> YamlDoc("none", EmptyMap)]
    /\ InitProcess

NextExport ==
    \/ GetConfig
    \/ DumpConfigToYaml
    \/ \E kwargs \in DumpKwargs : DumpConfigToDotenv(kwargs)

SpecExport == InitExport /\ [][NextExport]_vars

(***************************************************************************)
(* AppConfig constructed with the locations of the secrets directory and   *)
(* of the dotenv file given as arguments (_secrets_dir, _env_file), which  *)
(* BaseSettings reads instead of the locations of model_config.            *)
(***************************************************************************)
Unset == [unset |-> TRUE]

\* The values of _secrets_dir: not given, or a directory of the caller's.
SecretsDirOverrides ==
    {Unset} \cup {[path |-> "/tmp/secrets", dir |-> d] : d \in RunSecretsOptions}

\* The values of _env_file: not given, None, or a file of the caller's.
EnvFileOverrides ==
    {Unset, [path |-> "None", file |-> [exists |-> FALSE, vars |-> EmptyMap]]}
        \cup {[path |-> "/tmp/.env", file |-> f] : f \in RunDotenvOptions}

\* The locations the construction reads.
SecretsDirRead(override) ==
    IF override = Unset
    THEN [path |-> DEFAULT_CONFIG_SETTINGS.secrets_dir, dir |-> secrets_dir]
    ELSE override

EnvFileRead(override) ==
    IF override = Unset
    THEN [path |-> PROJECT_BASE_DIR \o "/" \o DEFAULT_CONFIG_SETTINGS.env_file,
          file |-> dotenv_file]
    ELSE override

\* AppConfig(_secrets_dir=..., _env_file=..., **kwargs): the sources are tracked
\* from model_config, then BaseSettings builds the instance from the locations
\* the arguments name.
ConstructWithLocations(kwargs, _secrets_dir, _env_file) ==
    /\ Len(config_sources) + 3 <= MaxRecords
    /\ config_sources' = track_all_sources(config_sources)
    /\ \E built \in {Construct(SecretsDirRead(_secrets_dir).dir, environ,
                                 EnvFileRead(_env_file).file, kwargs)} :
          last' = [op |-> "AppConfig", exc |-> built.exc, errors |-> built.errors,
                   ret |-> NoCache, ran |-> FALSE, export_exc |-> "none",
                   secrets_dir_read |-> [path |-> SecretsDirRead(_secrets_dir).path,
                                         exists |-> SecretsDirRead(_secrets_dir).dir.exists],
                   env_file_read |-> [path |-> EnvFileRead(_env_file).path,
                                      exists |-> EnvFileRead(_env_file).file.exists]]
    /\ UNCHANGED <<flattened, threads, sources, cache, heap, root_logger, reports, yaml_dump,
                   dotenv_dump, loads, edits>>

\* The sources are fixed while the constructions run.
InitLocations ==
    /\ environ \in RunEnvOptions
    /\ dotenv_file \in RunDotenvOptions
    /\ secrets_dir \in RunSecretsOptions
    /\ yaml_file \in RunYamlOptions
    /\ InitProcess

NextLocations ==
    \/ GetConfig
    \/ \E kwargs \in DirectKwargs, _secrets_dir \in SecretsDirOverrides,
           _env_file \in EnvFileOverrides :
          ConstructWithLocations(kwargs, _secrets_dir, _env_file)

SpecLocations == InitLocations /\ [][NextLocations]_vars

(***************************************************************************)
(* A consumer that assigns to the fields of the instance get_config gave   *)
(* it.  The settings of the models do not freeze the instances and do not  *)
(* validate assignments, so an assignment to a declared field stores the   *)
(* value as it is.                                                         *)
(***************************************************************************)
\* The assignments a consumer makes: config.SERVICE_NAME = ..., config.DB.PORT = ...
Assignments ==
    { <<<<"SERVICE_NAME">>, Str("changed")>>,
      <<<<"DB", "PORT">>, IntVal(1)>>,
      <<<<"DB", "PORT">>, Str("not a port")>> }

\* setattr on the cached instance, or on the section of it that holds the field.
SetAttr(k, v) ==
    /\ cache # NoCache
    /\ heap[cache][k] # v
    /\ heap' = [heap EXCEPT ![cache][k] = v]
    /\ UNCHANGED <<flattened, threads, sources, cache, config_sources, root_logger, reports, yaml_dump,
                   dotenv_dump, last, loads, edits>>

\* The sources are fixed while the consumer runs.
InitConsumer ==
    /\ environ \in RunEnvOptions
    /\ dotenv_file \in RunDotenvOptions
    /\ secrets_dir \in RunSecretsOptions
    /\ yaml_file \in RunYamlOptions
    /\ InitProcess

NextConsumer ==
    \/ GetConfig
    \/ CacheClear
    \/ \E a \in Assignments : SetAttr(a[1], a[2])

SpecConsumer == InitConsumer /\ [][NextConsumer]_vars

(***************************************************************************)
(* get_config called from several threads.  functools.lru_cache looks the  *)
(* key up, calls the function without holding a lock and stores what it    *)
(* returned; the steps of the body of one thread interleave with the steps *)
(* of the others.                                                          *)
(***************************************************************************)
At(t, pc) == threads[t].pc = pc
Goto(t, pc) == threads' = [threads EXCEPT ![t].pc = pc]

\* The wrapper looks the key up: a hit returns the cached instance, a miss
\* calls the body.
ThreadCall(t) ==
    /\ At(t, "idle")
    /\ threads' = [threads EXCEPT ![t] =
                      IF cache # NoCache
                      THEN [Idle EXCEPT !.pc = "done", !.ret = cache]
                      ELSE [Idle EXCEPT !.pc = "clear"]]
    /\ UNCHANGED <<flattened, sources, cache, heap, config_sources, root_logger, reports, yaml_dump,
                   dotenv_dump, last, loads, edits>>

\* clear_config_sources()
ThreadClear(t) ==
    /\ At(t, "clear")
    /\ config_sources' = clear_config_sources
    /\ Goto(t, "yaml")
    /\ UNCHANGED <<flattened, sources, cache, heap, root_logger, reports, yaml_dump, dotenv_dump, last,
                   loads, edits>>

\* yaml_config = load_config_yaml(), {} for None
ThreadLoadYaml(t) ==
    /\ At(t, "yaml")
    /\ config_sources' = track_config_source(config_sources, YamlSource)
    /\ \E loaded \in {load_config_yaml} :
          \E yaml_config \in {IF loaded.value = PyNone THEN PyDict(EmptyMap) ELSE loaded.value} :
             threads' = [threads EXCEPT ![t] =
                            IF yaml_config.py # "dict"
                            THEN [@ EXCEPT !.pc = "raised", !.exc = "TypeError"]
                            ELSE [@ EXCEPT !.pc = "secrets", !.kwargs = yaml_config.tree]]
    /\ UNCHANGED <<flattened, sources, cache, heap, root_logger, reports, yaml_dump, dotenv_dump, last,
                   loads, edits>>

\* One call of track_config_source in _track_all_sources.
ThreadTrack(t, pc, record, then) ==
    /\ At(t, pc)
    /\ config_sources' = track_config_source(config_sources, record)
    /\ Goto(t, then)
    /\ UNCHANGED <<flattened, sources, cache, heap, root_logger, reports, yaml_dump, dotenv_dump, last,
                   loads, edits>>

ThreadTrackAllSources(t) ==
    \/ ThreadTrack(t, "secrets", SecretsSource, "environment")
    \/ ThreadTrack(t, "environment", EnvironmentSource, "dotenv")
    \/ ThreadTrack(t, "dotenv", DotenvSource, "construct")

\* super().__init__(**data): the instance, or what the validation raised.
ThreadConstruct(t) ==
    /\ At(t, "construct")
    /\ \E built \in {Construct(secrets_dir, environ, dotenv_file, threads[t].kwargs)} :
          \E id \in {Cardinality(DOMAIN heap) + 1} :
             IF built.exc # "none"
             THEN /\ threads' = [threads EXCEPT ![t].pc = "raised", ![t].exc = built.exc]
                  /\ heap' = heap
             ELSE /\ threads' = [threads EXCEPT ![t].pc = "logging", ![t].built = id]
                  /\ heap' = heap @@ (id :> built.config)
    /\ UNCHANGED <<flattened, sources, cache, config_sources, root_logger, reports, yaml_dump,
                   dotenv_dump, last, loads, edits>>

\* setup_logging(config.LOGGING)
ThreadSetupLogging(t) ==
    /\ At(t, "logging")
    /\ root_logger' = setup_logging(root_logger,
                                    heap[threads[t].built][<<"LOGGING", "LOG_LEVEL">>].str)
    /\ Goto(t, "report")
    /\ UNCHANGED <<flattened, sources, cache, heap, config_sources, reports, yaml_dump, dotenv_dump,
                   last, loads, edits>>

\* print_config_sources(logger=logger)
ThreadPrintSources(t) ==
    /\ At(t, "report")
    /\ reports' = print_config_sources(root_logger, config_sources, reports)
    /\ Goto(t, "store")
    /\ UNCHANGED <<flattened, sources, cache, heap, config_sources, root_logger, yaml_dump, dotenv_dump,
                   last, loads, edits>>

\* The body returned: the wrapper stores the instance under the key, over
\* whatever another thread stored meanwhile, and returns it.
ThreadStore(t) ==
    /\ At(t, "store")
    /\ cache' = threads[t].built
    /\ threads' = [threads EXCEPT ![t].pc = "done", ![t].ret = threads[t].built]
    /\ UNCHANGED <<flattened, sources, heap, config_sources, root_logger, reports, yaml_dump,
                   dotenv_dump, last, loads, edits>>

ThreadStep(t) ==
    \/ ThreadCall(t)
    \/ ThreadClear(t)
    \/ ThreadLoadYaml(t)
    \/ ThreadTrackAllSources(t)
    \/ ThreadConstruct(t)
    \/ ThreadSetupLogging(t)
    \/ ThreadPrintSources(t)
    \/ ThreadStore(t)

\* The sources are fixed while the threads run.
InitThreads ==
    /\ environ \in RunEnvOptions
    /\ dotenv_file \in RunDotenvOptions
    /\ secrets_dir \in RunSecretsOptions
    /\ yaml_file \in YamlOptions
    /\ InitProcess

NextThreads == \E t \in Threads : ThreadStep(t)

SpecThreads == InitThreads /\ [][NextThreads]_vars

(***************************************************************************)
(* What the sources hold for a key, as the configuration's documentation   *)
(* names keys: a flat source names a nested key SECTION__FIELD, a          *)
(* document (the YAML file, a section's JSON secret) names it by its path. *)
(* These definitions state the claims; the loader does not use them.       *)
(***************************************************************************)
FlatName(k) == JoinKey(k, "__")

\* The raw value each source holds for the leaf k, or Absent.
Absent == [absent |-> TRUE]

TreeHolds(tree, k) ==
    IF Supplies(tree, FieldOf(k)) THEN RawValue(tree, FieldOf(k)) ELSE Absent

SecretsHolds(k) ==
    IF ~secrets_dir.exists THEN Absent
    ELSE IF FlatName(k) \in DOMAIN secrets_dir.files
            /\ ~IsJson(secrets_dir.files[FlatName(k)])
         THEN Str(Strip(secrets_dir.files[FlatName(k)].text))
    ELSE IF /\ Len(k) > 1
            /\ k[1] \in DOMAIN secrets_dir.files
            /\ IsJson(secrets_dir.files[k[1]])
         THEN TreeHolds([p \in {<<k[1]>> \o q : q \in DOMAIN secrets_dir.files[k[1]].json}
                            |-> secrets_dir.files[k[1]].json[Tail(p)]], k)
    ELSE Absent

EnvironHolds(k) ==
    IF FlatName(k) \in DOMAIN environ THEN Str(environ[FlatName(k)]) ELSE Absent

DotenvHolds(k) ==
    IF dotenv_file.exists /\ FlatName(k) \in DOMAIN dotenv_file.vars
    THEN Str(dotenv_file.vars[FlatName(k)]) ELSE Absent

YamlHolds(k) ==
    IF yaml_file.exists /\ yaml_file.doc.kind = "mapping"
    THEN TreeHolds(yaml_file.doc.tree, k) ELSE Absent

\* The value of the highest-priority source that holds k, in the documented
\* order secrets > environment > dotenv > file; Absent when none holds it.
HighestPriorityValue(k) ==
    IF SecretsHolds(k) # Absent THEN SecretsHolds(k)
    ELSE IF EnvironHolds(k) # Absent THEN EnvironHolds(k)
    ELSE IF DotenvHolds(k) # Absent THEN DotenvHolds(k)
    ELSE YamlHolds(k)

NoSourceHolds(k) == HighestPriorityValue(k) = Absent

\* The last call returned a configuration; the configuration it returned.
Returned == last.op = "get_config" /\ last.exc = "none" /\ last.ret # NoCache
ReturnedConfig == heap[last.ret]

\* The last call ran the body of get_config; it got as far as the construction
\* of AppConfig; the construction got as far as validation.
Loaded == last.op = "get_config" /\ last.ran
ConstructionStarted == Loaded /\ last.exc \notin {"YAMLError", "TypeError"}
Validated == Loaded /\ last.exc \in {"none", "ValidationError"}

\* The tree the YAML file hands to the constructor, and the merge of all trees.
YamlKwargs ==
    IF yaml_file.exists /\ yaml_file.doc.kind = "mapping" THEN yaml_file.doc.tree
    ELSE EmptyMap
MergedTree == BuildValues(SourceTrees(secrets_dir, environ, dotenv_file, YamlKwargs))

\* A step that calls get_config, directly or through an export.
CallStep ==
    GetConfig \/ DumpConfigToYaml \/ \E kwargs \in DumpKwargs : DumpConfigToDotenv(kwargs)

Mask == "**********"

(***************************************************************************)
(* C1.  For every key and every combination of sources that hold it, the   *)
(* loaded value is the value of the highest-priority source that holds it, *)
(* in the order secrets > environment > dotenv > file > default.           *)
(***************************************************************************)
C1_PrecedenceOrder ==
    Returned =>
        \A k \in Leaves :
            HighestPriorityValue(k) # Absent =>
                ValidateValue(FieldOf(k).type, HighestPriorityValue(k))
                    = Valid(ReturnedConfig[k])

(***************************************************************************)
(* C2.  Every key that no source holds has, in a configuration a load      *)
(* returned, the default the schema declares for it; and a load fails with *)
(* a validation error when a field that declares no default is held by no  *)
(* source.                                                                 *)
(***************************************************************************)
RequiredFields == {f \in AppConfig : f.default = Absent}

C2_DefaultsFillGaps ==
    /\ Returned =>
         \A k \in Leaves : NoSourceHolds(k) => ReturnedConfig[k] = FieldOf(k).default
    /\ (Loaded /\ \E f \in RequiredFields : NoSourceHolds(f.path)) =>
         last.exc = "ValidationError"

\* A load returned a configuration whose port and host no source holds.
C2_Witness ==
    /\ Returned /\ last.ran
    /\ NoSourceHolds(<<"DB", "PORT">>)
    /\ ReturnedConfig[<<"DB", "PORT">>] = IntVal(5432)
    /\ NoSourceHolds(<<"DB", "HOST">>)
    /\ \E k \in Leaves : ~NoSourceHolds(k)

(***************************************************************************)
(* C3 as the specification states it.  For every secret field, whatever    *)
(* value it holds, its string conversion and its leaf in the python-mode   *)
(* dump, the JSON-mode dump and the JSON string show exactly the mask of   *)
(* ten asterisks.                                                          *)
(***************************************************************************)
ShowsMask(config, k) ==
    /\ PyStr(config[k]) = Mask
    /\ PyStr(model_dump(config, "python", FALSE)[k]) = Mask
    /\ model_dump(config, "json", FALSE)[k] = Str(Mask)
    /\ model_dump_json(config).json[k] = Str(Mask)

ShowsEmpty(config, k) ==
    /\ PyStr(config[k]) = ""
    /\ PyStr(model_dump(config, "python", FALSE)[k]) = ""
    /\ model_dump(config, "json", FALSE)[k] = Str("")
    /\ model_dump_json(config).json[k] = Str("")

C4_CachedInstanceReturned ==
    [][(CallStep /\ Returned) =>
          /\ last'.ret = last.ret
          /\ ~last'.ran
          /\ <<heap, config_sources, root_logger, reports>>'
                = <<heap, config_sources, root_logger, reports>>]_vars

\* A second call in a row returned the instance of the first.
C4_Witness ==
    /\ Returned /\ ~last.ran
    /\ last.ret = cache
    /\ Cardinality(DOMAIN heap) = 1

(***************************************************************************)
(* C5.  The AWS section passes its validation exactly when the merged      *)
(* configuration sets AWS_PROFILE or sets both AWS_ACCESS_KEY_ID and       *)
(* AWS_SECRET_ACCESS_KEY; otherwise the load fails with a validation       *)
(* error, also when exactly one of the two keys is set.                    *)
(***************************************************************************)
AwsAuthError == [loc |-> <<"AWS_CONFIG">>, type |-> "value_error"]

IsSet(k) == Supplies(MergedTree, FieldOf(k)) /\ RawValue(MergedTree, FieldOf(k)) # None

ExportedSecrets ==
    IF cache = NoCache THEN {} ELSE {k \in SecretLeaves : IsSecret(heap[cache][k])}

FreshLoad ==
    IF yaml_file.exists /\ yaml_file.doc.kind \in {"sequence", "scalar"}
    THEN [exc |-> "TypeError", errors |-> {}, config |-> EmptyMap]
    ELSE Construct(secrets_dir, environ, dotenv_file, YamlKwargs)

C7_RebuiltOnlyOnCacheClear ==
    [][CallStep =>
          /\ Returned =>
                /\ last'.ret = last.ret
                /\ heap' = heap
          /\ DOMAIN heap' # DOMAIN heap => ~Returned
          /\ last.op = "cache_clear" =>
                /\ last'.ran
                /\ last'.exc = FreshLoad.exc
                /\ last'.errors = FreshLoad.errors
                /\ last'.ret # NoCache =>
                     /\ last'.ret \notin DOMAIN heap
                     /\ heap'[last'.ret] = FreshLoad.config]_vars

\* The call after a cache_clear built a second instance that differs from the
\* first, the sources having changed in between.
C7_Witness ==
    /\ Returned /\ last.ran
    /\ Cardinality(DOMAIN heap) = 2
    /\ heap[1] # heap[2]
    /\ edits > 0

(***************************************************************************)
(* C8.  A YAML file the parser cannot parse does not make the load fail:   *)
(* load_config_yaml returns None for it, and the load returns or raises    *)
(* exactly what it does with no YAML keys at all, from the other sources.  *)
(***************************************************************************)
C8_InvalidYamlIsEmpty ==
    (Loaded /\ yaml_file.exists /\ yaml_file.doc.kind = "invalid") =>
        LET fresh == Construct(secrets_dir, environ, dotenv_file, EmptyMap)
        IN  /\ last.exc = fresh.exc
            /\ last.errors = fresh.errors
            /\ Returned => ReturnedConfig = fresh.config

\* A load returned a configuration although the YAML file does not parse.
C8_Witness ==
    /\ Returned /\ last.ran
    /\ yaml_file.exists /\ yaml_file.doc.kind = "invalid"

(***************************************************************************)
(* C9.  A source that is absent makes no reader raise: the YAML reader     *)
(* records the missing file as not available and returns None; once the    *)
(* construction has started, a missing secrets directory and a missing     *)
(* dotenv file are recorded as not available and supply the empty tree;    *)
(* the load goes on and returns or raises what validation makes of the     *)
(* merge of the sources that remain.                                       *)
(***************************************************************************)
Record(source_type) ==
    CHOOSE r \in {config_sources[i] : i \in 1..Len(config_sources)} :
        r.source_type = source_type

Recorded(source_type) ==
    \E i \in 1..Len(config_sources) : config_sources[i].source_type = source_type

\* The trees of the sources that are there.
RemainingTrees ==
    [file_secret_settings |->
        IF secrets_dir.exists THEN SecretsSettingsSource(secrets_dir) ELSE EmptyMap,
     env_settings |-> EnvSettingsSource(environ),
     dotenv_settings |->
        IF dotenv_file.exists THEN DotEnvSettingsSource(dotenv_file) ELSE EmptyMap,
     init_settings |-> IF yaml_file.exists THEN YamlKwargs ELSE EmptyMap]

C9_AbsentSourceIsEmpty ==
    Loaded =>
        /\ ~yaml_file.exists =>
             /\ Recorded("yaml") /\ ~Record("yaml").available
             /\ last.exc \notin {"YAMLError", "TypeError"}
        /\ (ConstructionStarted /\ ~secrets_dir.exists) =>
             /\ Recorded("secrets") /\ ~Record("secrets").available
             /\ last.exc # "SettingsError"
        /\ (ConstructionStarted /\ ~dotenv_file.exists) =>
             /\ Recorded("dotenv") /\ ~Record("dotenv").available
        /\ Validated =>
             /\ last.errors = ModelValidate(BuildValues(RemainingTrees)).errors
             /\ Returned => ReturnedConfig = ModelValidate(BuildValues(RemainingTrees)).config

\* A load returned a configuration with no YAML file, no dotenv file and no
\* secrets directory.
C9_Witness ==
    /\ Returned /\ last.ran
    /\ ~yaml_file.exists /\ ~dotenv_file.exists /\ ~secrets_dir.exists
    /\ Len(config_sources) = 4

(***************************************************************************)
(* C10 as the specification states it.  A load fails with a validation     *)
(* error whenever some source supplies a key the schema does not declare,  *)
(* at the top level or inside a nested section.                            *)
(***************************************************************************)
\* The flat names and the paths the schema declares.
DeclaredNames == {FlatName(k) : k \in KnownPaths}

UndeclaredKeySupplied ==
    \/ \E n \in DOMAIN environ : n \notin DeclaredNames
    \/ dotenv_file.exists /\ \E n \in DOMAIN dotenv_file.vars : n \notin DeclaredNames
    \/ secrets_dir.exists
          /\ \E n \in DOMAIN secrets_dir.files : n \notin DeclaredNames \cup SectionFields
    \/ \E p \in DOMAIN YamlKwargs : p \notin KnownPaths

YamlTopLevelUndeclared == {p[1] : p \in {q \in DOMAIN YamlKwargs : q[1] \notin TopFields}}

DotenvTopLevelUndeclared ==
    IF ~dotenv_file.exists THEN {}
    ELSE {n \in DOMAIN dotenv_file.vars :
            /\ dotenv_file.vars[n] # ""
            /\ n \notin TopFields
            /\ \A f \in SectionFields : ~StartsWith(n, f)}

HasType(type, v) ==
    CASE type = "str" -> IsStr(v)
      [] type = "int" -> IsInt(v)
      [] type = "secret" -> IsSecret(v)
      [] type = "optstr" -> IsNone(v) \/ IsStr(v)
      [] type = "optsecret" -> IsNone(v) \/ IsSecret(v)
      [] type = "loglevel" -> IsStr(v) /\ v.str \in LogLevel
      [] type = "format" -> IsStr(v)
      [] type = "file" -> IsStr(v) \/ DOMAIN v = {"fspath"}

FullyValid(config) ==
    /\ DOMAIN config = Leaves
    /\ \A k \in Leaves : HasType(FieldOf(k).type, config[k])
    /\ validate_auth_config(config)

RecordCount(source_type) ==
    Cardinality({i \in 1..Len(config_sources) : config_sources[i].source_type = source_type})

C12_OneLoadCycleRecorded ==
    (last.op = "get_config" /\ last.exc = "none") =>
        /\ Len(config_sources) = 4
        /\ \A t \in {"yaml", "secrets", "environment", "dotenv"} : RecordCount(t) = 1

(***************************************************************************)
(* C13 as the specification states it.  One report has been emitted for    *)
(* every load get_config performed, and every report lists the sources in  *)
(* the order of precedence: secrets, environment, dotenv, YAML file.       *)
(***************************************************************************)
ReportOrder(report) == [i \in 1..Len(report) |-> report[i].source_type]

C13_ReportInPrecedenceOrder ==
    /\ Len(reports) = Cardinality(DOMAIN heap)
    /\ \A i \in 1..Len(reports) :
          ReportOrder(reports[i]) = <<"secrets", "environment", "dotenv", "yaml">>

(***************************************************************************)
(* C13, amended.  A call of get_config that runs the load and succeeds     *)
(* emits one report, provided the root logger admits INFO once logging is  *)
(* set up; the report lists the sources just recorded, with kind,          *)
(* availability and description, in the order they were probed: YAML file, *)
(* secrets, environment, dotenv.  A load that fails, a call served from    *)
(* the cache, a load that leaves the root logger above INFO and every      *)
(* other operation emit nothing.                                           *)
(***************************************************************************)
C13_ReportInProbeOrder ==
    [][IF CallStep /\ last'.ran /\ last'.exc = "none"
          /\ LevelNo[root_logger'.level] <= LevelNo["INFO"]
       THEN /\ reports' = Append(reports, SourceReport(config_sources'))
            /\ ReportOrder(reports'[Len(reports')])
                  = <<"yaml", "secrets", "environment", "dotenv">>
       ELSE reports' = reports]_vars

\* A second load succeeded and only the first one's report got out: the YAML
\* file of the first load set the level WARNING, which the root logger keeps.
C13_WitnessSuppressed ==
    /\ Returned /\ last.ran
    /\ Cardinality(DOMAIN heap) = 2
    /\ Len(reports) = 0
    /\ root_logger.level = "WARNING"

\* A load succeeded and its report got out.
C13_Witness ==
    /\ Returned /\ last.ran
    /\ Len(reports) = 1
    /\ ReportOrder(reports[1]) = <<"yaml", "secrets", "environment", "dotenv">>

(***************************************************************************)
(* C14.  When the YAML export of a loaded configuration is loaded as the   *)
(* YAML file, with no other source present, the load succeeds and the      *)
(* configuration it returns equals the exported one on every field that is *)
(* not secret.                                                             *)
(***************************************************************************)
\* config.yaml is the export and nothing else is there.
ExportInstalled ==
    /\ yaml_dump.written
    /\ yaml_file.exists /\ yaml_file.doc.kind = "mapping"
    /\ yaml_file.doc.tree = yaml_dump.content
    /\ environ = EmptyMap /\ ~dotenv_file.exists /\ ~secrets_dir.exists

\* The load of the installed export has just run; instance 1 is the exported one.
Reloaded == ExportInstalled /\ Loaded /\ loads = 2 /\ 1 \in DOMAIN heap

C14_YamlRoundTrip ==
    Reloaded =>
        /\ last.exc = "none"
        /\ \A k \in Leaves \ SecretLeaves : ReturnedConfig[k] = heap[1][k]

\* The same on every field that is neither secret nor the lookup file.
C14_YamlRoundTripButLookupFile ==
    Reloaded =>
        /\ last.exc = "none"
        /\ \A k \in Leaves \ (SecretLeaves \cup {<<"LOOKUP_DATA", "DATA_FILE_1">>}) :
              ReturnedConfig[k] = heap[1][k]

(***************************************************************************)
(* C15.  When the threads of a process call get_config at the same time,   *)
(* with nothing cached, and all the calls have returned, the list of       *)
(* source records holds the records of exactly one load, one per source,   *)
(* and every caller got the instance that is cached, which is the one      *)
(* every later caller gets.                                                *)
(***************************************************************************)
AllReturned == \A t \in Threads : threads[t].pc = "done"

C15_RaceLeavesOneCycleAndOneInstance ==
    AllReturned =>
        /\ Len(config_sources) = 4
        /\ \A type \in {"yaml", "secrets", "environment", "dotenv"} : RecordCount(type) = 1
        /\ \A t \in Threads : threads[t].ret = cache

\* The records: no source is missing from the list, whatever the interleaving.
C15_NoRecordMissing ==
    AllReturned =>
        \A type \in {"yaml", "secrets", "environment", "dotenv"} : RecordCount(type) >= 1

\* The records: a source recorded twice.
C15_DuplicatedRecords == AllReturned /\ Len(config_sources) > 4

\* The instances: two callers hold different instances.
C15_TwoInstances == AllReturned /\ \E t, u \in Threads : threads[t].ret # threads[u].ret

(***************************************************************************)
(* C16.  A variable named SECTION__FIELD, in the exact case of the schema, *)
(* in the environment or in the dotenv file sets the nested field          *)
(* SECTION.FIELD of a configuration a load returned, when no other source  *)
(* holds the field, and the field has the value in its declared type:      *)
(* DB__PORT=9999 in the dotenv file alone gives DB.PORT the integer 9999.  *)
(***************************************************************************)
\* The value of the declared type that the text of a variable stands for.
Coerced(type, text) ==
    CASE type = "int" -> IntVal(ParseInt(text))
      [] type \in {"secret", "optsecret"} -> SecretStr(text)
      [] OTHER -> Str(text)

OnlyEnvironHolds(k) ==
    /\ EnvironHolds(k) # Absent
    /\ SecretsHolds(k) = Absent /\ DotenvHolds(k) = Absent /\ YamlHolds(k) = Absent

OnlyDotenvHolds(k) ==
    /\ DotenvHolds(k) # Absent
    /\ SecretsHolds(k) = Absent /\ EnvironHolds(k) = Absent /\ YamlHolds(k) = Absent

C16_FlatKeySetsTypedNestedField ==
    Returned =>
        /\ \A k \in {l \in Leaves : Len(l) > 1} :
              /\ OnlyEnvironHolds(k) =>
                    ReturnedConfig[k] = Coerced(FieldOf(k).type, EnvironHolds(k).str)
              /\ OnlyDotenvHolds(k) =>
                    ReturnedConfig[k] = Coerced(FieldOf(k).type, DotenvHolds(k).str)
        /\ (OnlyDotenvHolds(<<"DB", "PORT">>) /\ dotenv_file.vars["DB__PORT"] = "9999") =>
              ReturnedConfig[<<"DB", "PORT">>] = IntVal(9999)

C16_Witness ==
    /\ Returned /\ last.ran
    /\ OnlyDotenvHolds(<<"DB", "PORT">>) /\ dotenv_file.vars["DB__PORT"] = "9999"
    /\ ReturnedConfig[<<"DB", "PORT">>] = IntVal(9999)

\* The same from the environment.
C16_WitnessEnviron ==
    /\ Returned /\ last.ran
    /\ OnlyEnvironHolds(<<"DB", "PORT">>)
    /\ ReturnedConfig[<<"DB", "PORT">>] = IntVal(2222)

(***************************************************************************)
(* C17.  With nothing in the environment, no dotenv file, no secrets       *)
(* directory and no keyword argument, the construction of AppConfig        *)
(* succeeds and the instance holds the defaults: SERVICE_NAME is           *)
(* "my_service_name", DB.PORT is 5432, AWS_CONFIG.AWS_PROFILE is           *)
(* "default".                                                              *)
(***************************************************************************)
NoSourceSupplies == environ = EmptyMap /\ ~dotenv_file.exists /\ ~secrets_dir.exists

\* What AppConfig(**kwargs) builds from the sources as they are.
Constructed(kwargs) == Construct(secrets_dir, environ, dotenv_file, kwargs)

C17_PureDefaultsConstruct ==
    [][(DirectConstruct(EmptyMap) /\ NoSourceSupplies) =>
          /\ last'.exc = "none"
          /\ Constructed(EmptyMap).config[<<"SERVICE_NAME">>] = Str("my_service_name")
          /\ Constructed(EmptyMap).config[<<"DB", "PORT">>] = IntVal(5432)
          /\ Constructed(EmptyMap).config[<<"AWS_CONFIG", "AWS_PROFILE">>] = Str("default")]_vars

\* The construction from nothing raises, and the one error is that of the
\* AWS section.
C17_PureDefaultsRaise ==
    [][(DirectConstruct(EmptyMap) /\ NoSourceSupplies) =>
          /\ last'.exc = "ValidationError"
          /\ last'.errors = Constructed(EmptyMap).errors
          /\ last'.errors = {AwsAuthError}]_vars

\* With the profile as the one keyword argument the construction succeeds and
\* the other two fields hold the defaults named.
ProfileOnly == [p \in {<<"AWS_CONFIG", "AWS_PROFILE">>} |-> Str("direct_profile")]

C17_DefaultsBesideProfile ==
    [][(DirectConstruct(ProfileOnly) /\ NoSourceSupplies) =>
          /\ last'.exc = "none"
          /\ Constructed(ProfileOnly).config[<<"SERVICE_NAME">>] = Str("my_service_name")
          /\ Constructed(ProfileOnly).config[<<"DB", "PORT">>] = IntVal(5432)]_vars

(***************************************************************************)
(* C18.  An instance that get_config built and cached never changes: no    *)
(* step of a consumer changes a field of it, so the calls of get_config    *)
(* between two clearings of the cache see the same values.                 *)
(***************************************************************************)
C18_CachedInstanceImmutable ==
    [][\A id \in DOMAIN heap : id \in DOMAIN heap' /\ heap'[id] = heap[id]]_vars

\* A cached instance that no load could have built: its port is not an integer.
C18_CachedInstanceInvalid ==
    /\ Returned /\ ~last.ran
    /\ ~FullyValid(ReturnedConfig)

(***************************************************************************)
(* C19.  The merge overlays leaf by leaf.  When a source supplies one leaf *)
(* of a section and a source of lower priority supplies another leaf of    *)
(* the same section, and nothing else supplies either, a configuration a   *)
(* load returned has both: the sibling from the lower source is kept and   *)
(* the leaf of the higher source is the one it supplied.                   *)
(***************************************************************************)
\* The trees the readers hand to the merge, by the place of the source in the
\* order of priority.
TreesInOrder ==
    [i \in DOMAIN settings_customise_sources |->
        SourceTrees(secrets_dir, environ, dotenv_file, YamlKwargs)[settings_customise_sources[i]]]

NestedLeaves == {k \in Leaves : Len(k) > 1}

\* For every nested leaf, the places of the sources that supply it.
Suppliers(trees) ==
    [k \in NestedLeaves |-> {i \in DOMAIN trees : TreeHolds(trees[i], k) # Absent}]

\* The typed value of what a source supplied.
Typed(type, v) == IF IsStr(v) THEN Coerced(type, v.str) ELSE v

\* Leaves k and l are siblings, source i alone supplies k and has priority over
\* source j, which alone supplies l.
SiblingsFromTwoSources(suppliers, i, k, j, l) ==
    /\ i < j
    /\ k[1] = l[1] /\ k # l
    /\ suppliers[k] = {i}
    /\ suppliers[l] = {j}

C19_MergePerLeaf ==
    Returned =>
        \A trees \in {TreesInOrder} : \A suppliers \in {Suppliers(trees)} :
            \A k, l \in NestedLeaves : \A i \in suppliers[k] : \A j \in suppliers[l] :
                SiblingsFromTwoSources(suppliers, i, k, j, l) =>
                    /\ ReturnedConfig[k] = Typed(FieldOf(k).type, TreeHolds(trees[i], k))
                    /\ ReturnedConfig[l] = Typed(FieldOf(l).type, TreeHolds(trees[j], l))

\* The environment sets DB__PORT and the YAML file sets DB.HOST.
C19_Witness ==
    /\ Returned /\ last.ran
    /\ SiblingsFromTwoSources(Suppliers(TreesInOrder), 2, <<"DB", "PORT">>, 4, <<"DB", "HOST">>)
    /\ ReturnedConfig[<<"DB", "PORT">>] = IntVal(2222)
    /\ ReturnedConfig[<<"DB", "HOST">>] = Str("file.host")

(***************************************************************************)
(* C20.  _flatten_config_dict gives every leaf of the dictionary one key,  *)
(* its path joined with "__", and nothing else; the value under the key is *)
(* the comma-joined items of a list, the lowercase name of a boolean, the  *)
(* text None for null and the string form of any other scalar, so a leaf   *)
(* that holds null is told from a leaf that is not there.                  *)
(***************************************************************************)
\* The flat value the claim names for a leaf.
FlatValue(v) ==
    CASE v = None -> "None"
      [] v = Bool(TRUE) -> "true"
      [] v = Bool(FALSE) -> "false"
      [] v = IntVal(7) -> "7"
      [] v = ListVal(<< >>) -> ""
      [] v = ListVal(<<Str("a"), IntVal(1)>>) -> "a,1"
      [] v = ListVal(<<Bool(TRUE), None>>) -> "True,None"
      [] OTHER -> v.str

\* The leaves the function leaves out: strings that begin with eight asterisks.
LooksMasked(v) == IsStr(v) /\ Len(v.str) >= 8 /\ SubSeq(v.str, 1, 8) = "********"

C20_FlattenKeepsEveryLeaf ==
    flattened.called =>
        /\ DOMAIN flattened.flat_config = {FlatName(p) : p \in DOMAIN flattened.config_dict}
        /\ \A p \in DOMAIN flattened.config_dict :
              flattened.flat_config[FlatName(p)] = FlatValue(flattened.config_dict[p])

\* The same for every leaf but the strings that begin with eight asterisks,
\* which get no key.
C20_FlattenKeepsEveryLeafButMasked ==
    flattened.called =>
        /\ DOMAIN flattened.flat_config
              = {FlatName(p) : p \in {q \in DOMAIN flattened.config_dict :
                                         ~LooksMasked(flattened.config_dict[q])}}
        /\ \A p \in DOMAIN flattened.config_dict :
              ~LooksMasked(flattened.config_dict[p]) =>
                  flattened.flat_config[FlatName(p)] = FlatValue(flattened.config_dict[p])

\* A dictionary with a null leaf, a list and a masked string below the top
\* level, flattened.
C20_Witness ==
    /\ flattened.called
    /\ DOMAIN flattened.config_dict = FlattenPaths
    /\ flattened.config_dict[<<"A">>] = ListVal(<<Str("a"), IntVal(1)>>)
    /\ flattened.config_dict[<<"S", "B">>] = None
    /\ flattened.config_dict[<<"S", "T", "C">>] = Str("**********")
    /\ flattened.flat_config = [k \in {"A", "S__B"} |-> IF k = "A" THEN "a,1" ELSE "None"]

(***************************************************************************)
(* C21.  The dotenv export leaves no plain data out: every leaf of the     *)
(* dumped configuration whose field is not a secret has its key in what    *)
(* _flatten_config_dict returns and in the file dump_config_to_dotenv      *)
(* wrote, whatever the value is.                                           *)
(***************************************************************************)
\* The leaves of the cached configuration that are in its dump whatever the
\* keyword arguments are: the fields that are not secrets and hold a value.
PlainDumpedLeaves ==
    IF cache = NoCache THEN {}
    ELSE {k \in Leaves \ SecretLeaves : ~IsNone(heap[cache][k])}

\* The keys _flatten_config_dict returns for the dump of the cached configuration.
FlatKeys(exclude_none) ==
    DOMAIN flatten_config_dict(model_dump(heap[cache], "json", exclude_none))

C21_DotenvExportComplete ==
    dotenv_dump.written =>
        \A k \in PlainDumpedLeaves :
            /\ \A exclude_none \in BOOLEAN : FlatName(k) \in FlatKeys(exclude_none)
            /\ FlatName(k) \in DOMAIN dotenv_dump.content

\* The same for the leaves whose text does not begin with eight asterisks;
\* the others are not in the file.
C21_DotenvExportCompleteButMasked ==
    dotenv_dump.written =>
        \A k \in PlainDumpedLeaves :
            LET masked == LooksMasked(SerializeLeaf(heap[cache][k], "json"))
            IN  /\ \A exclude_none \in BOOLEAN :
                      (FlatName(k) \in FlatKeys(exclude_none)) = ~masked
                /\ (FlatName(k) \in DOMAIN dotenv_dump.content) = ~masked

\* An export that left the service name out.
C21_ServiceNameLeftOut ==
    /\ dotenv_dump.written
    /\ heap[cache][<<"SERVICE_NAME">>] = Str("********x")
    /\ "SERVICE_NAME" \notin DOMAIN dotenv_dump.content

(***************************************************************************)
(* C22.  Whatever calls of get_config and cache_clear and whatever changes *)
(* of the sources came before, when a load has returned a configuration    *)
(* the level of the root logger is the LOG_LEVEL of that configuration.    *)
(***************************************************************************)
LogLevelOf(id) == heap[id][<<"LOGGING", "LOG_LEVEL">>].str

C22_LoggerFollowsLoad ==
    (Returned /\ last.ran) => root_logger.level = LogLevelOf(last.ret)

\* The level is the one of the first configuration the process loaded, and
\* the root logger has the one handler that load added.
C22_LoggerKeepsFirstLoad ==
    (Returned /\ last.ran) =>
        /\ root_logger.level = LogLevelOf(1)
        /\ root_logger.handlers = 1

\* A second load returned a configuration with another level than the logger has.
C22_StaleLevel ==
    /\ Returned /\ last.ran /\ last.ret = 2
    /\ LogLevelOf(2) = "WARNING"
    /\ root_logger.level = "INFO"

(***************************************************************************)
(* C23.  The secrets record and the dotenv record that a construction of   *)
(* AppConfig appends describe the locations that construction read: their  *)
(* path and their availability are those of the directory and of the file  *)
(* the _secrets_dir and _env_file arguments name, when these are given.     *)
(***************************************************************************)
\* The last call was a construction with locations; the records it appended.
ConstructedWithLocations == last.op = "AppConfig" /\ "secrets_dir_read" \in DOMAIN last
LastRecord(back) == config_sources[Len(config_sources) - back]

C23_RecordsDescribeLocationsRead ==
    ConstructedWithLocations =>
        /\ LastRecord(2).source_type = "secrets"
        /\ LastRecord(2).path = last.secrets_dir_read.path
        /\ LastRecord(2).available = last.secrets_dir_read.exists
        /\ LastRecord(0).source_type = "dotenv"
        /\ last.env_file_read.path # "None" =>
              /\ LastRecord(0).path = last.env_file_read.path
              /\ LastRecord(0).available = last.env_file_read.exists

\* The records describe the locations of model_config, whatever was read.
C23_RecordsDescribeClassLocations ==
    ConstructedWithLocations =>
        /\ LastRecord(2) = SecretsSource
        /\ LastRecord(1) = EnvironmentSource
        /\ LastRecord(0) = DotenvSource

\* A construction read a secrets directory of the caller's that exists, and the
\* record says /run/secrets is not available.
C23_WrongSecretsRecord ==
    /\ ConstructedWithLocations /\ last.exc = "none"
    /\ last.secrets_dir_read = [path |-> "/tmp/secrets", exists |-> TRUE]
    /\ LastRecord(2).path = "/run/secrets" /\ ~LastRecord(2).available

(***************************************************************************)
(* C24.  load_config_yaml returns None or a mapping whatever the file      *)
(* holds; a file that is there and holds nothing, a list or a scalar       *)
(* counts as no YAML keys at all, so the load returns or raises what the   *)
(* other sources alone give; and a load never raises anything but a        *)
(* validation error.                                                       *)
(***************************************************************************)
UnusableYaml == yaml_file.exists /\ yaml_file.doc.kind \in {"empty", "sequence", "scalar"}

C24_UnusableYamlIsEmpty ==
    Loaded =>
        /\ load_config_yaml.value.py \in {"None", "dict"}
        /\ last.exc \in {"none", "ValidationError"}
        /\ UnusableYaml =>
              LET fresh == Construct(secrets_dir, environ, dotenv_file, EmptyMap)
              IN  /\ last.exc = fresh.exc
                  /\ last.errors = fresh.errors
                  /\ Returned => ReturnedConfig = fresh.config

\* What the load does with each kind of file: an empty one counts as no keys;
\* a list or a scalar is handed to AppConfig(**yaml_config), which raises
\* TypeError before any other source is recorded.
C24_ListOrScalarRaisesTypeError ==
    Loaded =>
        /\ (yaml_file.exists /\ yaml_file.doc.kind = "empty") =>
              /\ load_config_yaml.value = PyNone
              /\ last.exc = Construct(secrets_dir, environ, dotenv_file, EmptyMap).exc
        /\ (yaml_file.exists /\ yaml_file.doc.kind \in {"sequence", "scalar"}) =>
              /\ load_config_yaml.value.py \notin {"None", "dict"}
              /\ last.exc = "TypeError"
              /\ cache = NoCache
              /\ Len(config_sources) = 1
        /\ last.exc \in {"none", "ValidationError", "TypeError"}

\* A load of a file that holds a list raised TypeError although the other
\* sources alone give a valid configuration.
C24_TypeErrorFromList ==
    /\ Loaded /\ last.exc = "TypeError"
    /\ yaml_file.exists /\ yaml_file.doc.kind = "sequence"
    /\ Construct(secrets_dir, environ, dotenv_file, EmptyMap).exc = "none"

====
